---------------------------- MODULE Spec2Model ----------------------------
(***************************************************************************)
(* slog-unwrap: extension methods on Result and Option that, on the wrong  *)
(* variant, log a record at Critical level to a slog::Logger and panic.    *)
(*                                                                         *)
(* Two source files are modelled: src/src/slog.rs (ResultExt + OptionExt)  *)
(* and src/src/lib.rs (ResultExt only; it declares no `mod slog`, so the   *)
(* two are alternative crate roots and a build holds exactly one of them). *)
(* Text is modelled by TLA+ strings: \o is concatenation, SubSeq slicing.  *)
(***************************************************************************)
EXTENDS Integers, Sequences, FiniteSets, TLC

(***************************************************************************)
(* Bounds.                                                                 *)
(***************************************************************************)
NumThreads == 2

Threads == 1..NumThreads

(***************************************************************************)
(* Text: what `{}` and `{:?}` produce.                                     *)
(***************************************************************************)
\* d occurs in s as a contiguous substring
Contains(s, d) ==
    \E i \in 1..(Len(s) - Len(d) + 1) : SubSeq(s, i, i + Len(d) - 1) = d

Digit(d) == SubSeq("0123456789", d + 1, d + 1)

RECURSIVE Decimal(_)
Decimal(n) == IF n < 10 THEN Digit(n) ELSE Decimal(n \div 10) \o Digit(n % 10)

\* <i32 as fmt::Debug>::fmt
DebugInt(n) == IF n < 0 THEN "-" \o Decimal(0 - n) ELSE Decimal(n)

\* char::escape_debug as used by <str as fmt::Debug>::fmt (no escape of ')
EscapeChar(c) ==
    CASE c = "\"" -> "\\\""
      [] c = "\\" -> "\\\\"
      [] c = "\n" -> "\\n"
      [] c = "\t" -> "\\t"
      [] c = "\r" -> "\\r"
      [] OTHER    -> c

RECURSIVE EscapeFrom(_, _)
EscapeFrom(s, i) ==
    IF i > Len(s) THEN ""
    ELSE EscapeChar(SubSeq(s, i, i)) \o EscapeFrom(s, i + 1)

\* <String as fmt::Debug>::fmt
DebugStr(s) == "\"" \o EscapeFrom(s, 1) \o "\""

\* `{:?}` of a payload (value: &dyn fmt::Debug; &value formats as value does)
DebugFmt(v) == IF v.type = "i32" THEN DebugInt(v.int) ELSE DebugStr(v.str)

(***************************************************************************)
(* The fixed default messages of the unwrap_* methods.                     *)
(***************************************************************************)
\* The grave accent (U+0060) that quotes the identifiers in these messages
\* cannot be written in a TLA+ string; the model writes it as an apostrophe,
\* which `{}` and `{:?}` of a str treat alike (neither is escaped).
Backtick == "'"

MsgResultUnwrap ==
    "called " \o Backtick \o "Result::unwrap_or_log()" \o Backtick
        \o " on an " \o Backtick \o "Err" \o Backtick \o " value"
MsgResultUnwrapErr ==
    "called " \o Backtick \o "Result::unwrap_err_or_log()" \o Backtick
        \o " on an " \o Backtick \o "Ok" \o Backtick \o " value"
MsgOptionUnwrap ==
    "called " \o Backtick \o "Option::unwrap_or_log()" \o Backtick
        \o " on a " \o Backtick \o "None" \o Backtick \o " value"
MsgOptionUnwrapNone ==
    "called " \o Backtick \o "Option::unwrap_none_or_log()" \o Backtick
        \o " on a " \o Backtick \o "Some" \o Backtick \o " value"

\* the payload of panic!() with no arguments
ExplicitPanic == "explicit panic"

(***************************************************************************)
(* Inputs: payloads of the generic types T and E, containers, messages.    *)
(***************************************************************************)
I32(n) == [type |-> "i32", int |-> n]
Str(s) == [type |-> "String", str |-> s]
Unit == [type |-> "unit"]

Ok(v) == [tag |-> "Ok", val |-> v]
Err(v) == [tag |-> "Err", val |-> v]
Some(v) == [tag |-> "Some", val |-> v]
None == [tag |-> "None"]

\* The generic types are instantiated as Result<i32, String> and Option<i32>.
\* One failure value is itself the text of a default message: an error that
\* carries the message of an earlier failed unwrap.
OkValues == {I32(42)}
ErrValues == {Str("boom"), Str(MsgResultUnwrap)}
SomeValues == {I32(42)}

Results == {Ok(v) : v \in OkValues} \cup {Err(v) : v \in ErrValues}
Options == {None} \cup {Some(v) : v \in SomeValues}

\* DebugFmt of every payload in use, formatted once
DebugText == [v \in OkValues \cup ErrValues \cup SomeValues |-> DebugFmt(v)]

Debug(v) == DebugText[v]

\* format_args!("{}", msg)
Format1(msg) == msg

\* format_args!("{}: {:?}", msg, &value)
Format2(msg, value) == msg \o ": " \o Debug(value)

\* caller-supplied msg: &str of the expect_* methods
Msgs == {"", "loading config", MsgResultUnwrap}

NoFrame == [none |-> TRUE]
NoCall == [none |-> TRUE]
NoValue == [none |-> TRUE]

Revisions == {"slog.rs", "lib.rs"}
FeatureSets == SUBSET {"panic-quiet"}

(***************************************************************************)
(* State.                                                                  *)
(***************************************************************************)
VARIABLES
    revision,   \* which source file is the crate that was built
    features,   \* the cargo features the crate was built with
    pc,         \* pc[t]: where thread t stands
    call,       \* call[t]: the method thread t invoked and its arguments
    frame,      \* frame[t]: the arguments of the helper t is in (msg, value)
    ret,        \* ret[t]: the value returned to the caller
    panicked,   \* panicked[t]: [msg |-> the payload] of the panic unwinding t
    logger      \* logger[t]: the records received through t's &slog::Logger

vars == <<revision, features, pc, call, frame, ret, panicked, logger>>

Init ==
    /\ revision \in Revisions
    /\ features \in FeatureSets
    /\ pc = [t \in Threads |-> "call"]
    /\ call = [t \in Threads |-> NoCall]
    /\ frame = [t \in Threads |-> NoFrame]
    /\ ret = [t \in Threads |-> NoValue]
    /\ panicked = [t \in Threads |-> NoValue]
    /\ logger = [t \in Threads |-> << >>]


(***************************************************************************)
(* Control transfer: a method returns its payload to the caller, or calls  *)
(* a helper of type `-> !` with (log, msg) or (log, msg, value).           *)
(***************************************************************************)
\* `Ok(t) => t`: the payload is moved out to the caller
Return(t, c, v) ==
    /\ pc' = [pc EXCEPT ![t] = "returned"]
    /\ call' = [call EXCEPT ![t] = c]
    /\ ret' = [ret EXCEPT ![t] = v]
    /\ UNCHANGED <<revision, features, frame, panicked, logger>>

\* `None => failed(log, msg)`
CallFailed(t, c, msg) ==
    /\ pc' = [pc EXCEPT ![t] = "failed:crit"]
    /\ call' = [call EXCEPT ![t] = c]
    /\ frame' = [frame EXCEPT ![t] = [msg |-> msg]]
    /\ UNCHANGED <<revision, features, ret, panicked, logger>>

\* `Err(e) => failed_with(log, msg, &e)`
CallFailedWith(t, c, msg, value) ==
    /\ pc' = [pc EXCEPT ![t] = "failed_with:crit"]
    /\ call' = [call EXCEPT ![t] = c]
    /\ frame' = [frame EXCEPT ![t] = [msg |-> msg, value |-> value]]
    /\ UNCHANGED <<revision, features, ret, panicked, logger>>

\* slog::crit!(log, ...): the logger receives one record at Level::Critical
Crit(t, text, next) ==
    /\ logger' = [logger EXCEPT
                    ![t] = Append(@, [level |-> "Critical", text |-> text])]
    /\ pc' = [pc EXCEPT ![t] = next]
    /\ UNCHANGED <<revision, features, call, frame, ret, panicked>>

\* Mutant of Panic: the panic aborts the process, ending every thread.
PanicAborts(t, payload) ==
    /\ pc' = [u \in Threads |-> "panicked"]
    /\ panicked' = [panicked EXCEPT ![t] = [msg |-> payload]]
    /\ UNCHANGED <<revision, features, call, frame, ret, logger>>

\* panic!(...): the calling thread unwinds with the payload; no other thread
\* is touched

Panic(t, payload) ==
    /\ pc' = [pc EXCEPT ![t] = "panicked"]
    /\ panicked' = [panicked EXCEPT ![t] = [msg |-> payload]]
    /\ UNCHANGED <<revision, features, call, frame, ret, logger>>

(***************************************************************************)
(* src/src/slog.rs: impl ResultExt for Result<T, E>                        *)
(***************************************************************************)
\* Mutant of Result_unwrap_or_log: the match arms are swapped.
Result_unwrap_or_log_Swapped(t) ==
    /\ revision = "slog.rs"
    /\ pc[t] = "call"
    /\ \E self \in Results :
         LET c == [op |-> "Result::unwrap_or_log", self |-> self] IN
         IF self.tag = "Ok"
         THEN CallFailedWith(t, c, MsgResultUnwrap, self.val)
         ELSE Return(t, c, self.val)

Result_unwrap_or_log(t) ==
    /\ revision = "slog.rs"
    /\ pc[t] = "call"
    /\ \E self \in Results :
         LET c == [op |-> "Result::unwrap_or_log", self |-> self] IN
         IF self.tag = "Ok"
         THEN Return(t, c, self.val)
         ELSE CallFailedWith(t, c, MsgResultUnwrap, self.val)

\* Mutant of Result_expect_or_log: msg is dropped for the default message.
Result_expect_or_log_IgnoresMsg(t) ==
    /\ revision = "slog.rs"
    /\ pc[t] = "call"
    /\ \E self \in Results, msg \in Msgs :
         LET c == [op |-> "Result::expect_or_log", self |-> self, msg |-> msg] IN
         IF self.tag = "Ok"
         THEN Return(t, c, self.val)
         ELSE CallFailedWith(t, c, MsgResultUnwrap, self.val)

Result_expect_or_log(t) ==
    /\ revision = "slog.rs"
    /\ pc[t] = "call"
    /\ \E self \in Results, msg \in Msgs :
         LET c == [op |-> "Result::expect_or_log", self |-> self, msg |-> msg] IN
         IF self.tag = "Ok"
         THEN Return(t, c, self.val)
         ELSE CallFailedWith(t, c, msg, self.val)

\* Mutant of Result_unwrap_err_or_log: the message of unwrap_or_log is used.
Result_unwrap_err_or_log_WrongDefault(t) ==
    /\ revision = "slog.rs"
    /\ pc[t] = "call"
    /\ \E self \in Results :
         LET c == [op |-> "Result::unwrap_err_or_log", self |-> self] IN
         IF self.tag = "Ok"
         THEN CallFailedWith(t, c, MsgResultUnwrap, self.val)
         ELSE Return(t, c, self.val)

Result_unwrap_err_or_log(t) ==
    /\ revision = "slog.rs"
    /\ pc[t] = "call"
    /\ \E self \in Results :
         LET c == [op |-> "Result::unwrap_err_or_log", self |-> self] IN
         IF self.tag = "Ok"
         THEN CallFailedWith(t, c, MsgResultUnwrapErr, self.val)
         ELSE Return(t, c, self.val)

Result_expect_err_or_log(t) ==
    /\ revision = "slog.rs"
    /\ pc[t] = "call"
    /\ \E self \in Results, msg \in Msgs :
         LET c == [op |-> "Result::expect_err_or_log", self |-> self,
                   msg |-> msg] IN
         IF self.tag = "Ok"
         THEN CallFailedWith(t, c, msg, self.val)
         ELSE Return(t, c, self.val)

(***************************************************************************)
(* src/src/slog.rs: impl OptionExt for Option<T>                           *)
(***************************************************************************)
Option_unwrap_or_log(t) ==
    /\ revision = "slog.rs"
    /\ pc[t] = "call"
    /\ \E self \in Options :
         LET c == [op |-> "Option::unwrap_or_log", self |-> self] IN
         IF self.tag = "Some"
         THEN Return(t, c, self.val)
         ELSE CallFailed(t, c, MsgOptionUnwrap)

Option_expect_or_log(t) ==
    /\ revision = "slog.rs"
    /\ pc[t] = "call"
    /\ \E self \in Options, msg \in Msgs :
         LET c == [op |-> "Option::expect_or_log", self |-> self, msg |-> msg] IN
         IF self.tag = "Some"
         THEN Return(t, c, self.val)
         ELSE CallFailed(t, c, msg)

\* Mutant of Option_unwrap_none_or_log: the `if let Some` check is missing.
Option_unwrap_none_or_log_NoCheck(t) ==
    /\ revision = "slog.rs"
    /\ pc[t] = "call"
    /\ \E self \in Options :
         LET c == [op |-> "Option::unwrap_none_or_log", self |-> self] IN
         Return(t, c, Unit)

Option_unwrap_none_or_log(t) ==
    /\ revision = "slog.rs"
    /\ pc[t] = "call"
    /\ \E self \in Options :
         LET c == [op |-> "Option::unwrap_none_or_log", self |-> self] IN
         IF self.tag = "Some"
         THEN CallFailedWith(t, c, MsgOptionUnwrapNone, self.val)
         ELSE Return(t, c, Unit)

Option_expect_none_or_log(t) ==
    /\ revision = "slog.rs"
    /\ pc[t] = "call"
    /\ \E self \in Options, msg \in Msgs :
         LET c == [op |-> "Option::expect_none_or_log", self |-> self,
                   msg |-> msg] IN
         IF self.tag = "Some"
         THEN CallFailedWith(t, c, msg, self.val)
         ELSE Return(t, c, Unit)

(***************************************************************************)
(* src/src/slog.rs: fn failed, fn failed_with.  Each is two statements:    *)
(* the slog::crit! call, then the panic! the build's cfg selects.          *)
(***************************************************************************)
\* Mutant of failed_crit: the record is logged with slog::error!.
failed_crit_ErrorLevel(t) ==
    /\ revision = "slog.rs"
    /\ pc[t] = "failed:crit"
    /\ logger' = [logger EXCEPT
                    ![t] = Append(@, [level |-> "Error",
                                      text |-> Format1(frame[t].msg)])]
    /\ pc' = [pc EXCEPT ![t] = "failed:panic"]
    /\ UNCHANGED <<revision, features, call, frame, ret, panicked>>

failed_crit(t) ==
    /\ revision = "slog.rs"
    /\ pc[t] = "failed:crit"
    /\ Crit(t, Format1(frame[t].msg), "failed:panic")

failed_panic(t) ==
    /\ revision = "slog.rs"
    /\ pc[t] = "failed:panic"
    /\ IF "panic-quiet" \in features
       THEN Panic(t, ExplicitPanic)
       ELSE Panic(t, Format1(frame[t].msg))

\* Mutant of failed_with_crit: the value is left out of the record.
failed_with_crit_NoValue(t) ==
    /\ revision = "slog.rs"
    /\ pc[t] = "failed_with:crit"
    /\ Crit(t, Format1(frame[t].msg), "failed_with:panic")

\* Mutant of failed_with_crit: the panic comes first, so nothing is logged.
failed_with_crit_PanicsFirst(t) ==
    /\ revision = "slog.rs"
    /\ pc[t] = "failed_with:crit"
    /\ Panic(t, Format2(frame[t].msg, frame[t].value))

failed_with_crit(t) ==
    /\ revision = "slog.rs"
    /\ pc[t] = "failed_with:crit"
    /\ Crit(t, Format2(frame[t].msg, frame[t].value), "failed_with:panic")

\* Mutant of failed_with_panic: the value is left out of the panic message.
failed_with_panic_NoValue(t) ==
    /\ revision = "slog.rs"
    /\ pc[t] = "failed_with:panic"
    /\ IF "panic-quiet" \in features
       THEN Panic(t, ExplicitPanic)
       ELSE Panic(t, Format1(frame[t].msg))

failed_with_panic(t) ==
    /\ revision = "slog.rs"
    /\ pc[t] = "failed_with:panic"
    /\ IF "panic-quiet" \in features
       THEN Panic(t, ExplicitPanic)
       ELSE Panic(t, Format2(frame[t].msg, frame[t].value))

(***************************************************************************)
(* src/src/lib.rs: impl ResultExt for Result<T, E>, and fn failed_with.    *)
(* lib.rs has no OptionExt, so nothing in it calls its fn failed.          *)
(***************************************************************************)
lib_Result_unwrap_or_log(t) ==
    /\ revision = "lib.rs"
    /\ pc[t] = "call"
    /\ \E self \in Results :
         LET c == [op |-> "Result::unwrap_or_log", self |-> self] IN
         IF self.tag = "Ok"
         THEN Return(t, c, self.val)
         ELSE CallFailedWith(t, c, MsgResultUnwrap, self.val)

lib_Result_expect_or_log(t) ==
    /\ revision = "lib.rs"
    /\ pc[t] = "call"
    /\ \E self \in Results, msg \in Msgs :
         LET c == [op |-> "Result::expect_or_log", self |-> self, msg |-> msg] IN
         IF self.tag = "Ok"
         THEN Return(t, c, self.val)
         ELSE CallFailedWith(t, c, msg, self.val)

lib_Result_unwrap_err_or_log(t) ==
    /\ revision = "lib.rs"
    /\ pc[t] = "call"
    /\ \E self \in Results :
         LET c == [op |-> "Result::unwrap_err_or_log", self |-> self] IN
         IF self.tag = "Ok"
         THEN CallFailedWith(t, c, MsgResultUnwrapErr, self.val)
         ELSE Return(t, c, self.val)

lib_Result_expect_err_or_log(t) ==
    /\ revision = "lib.rs"
    /\ pc[t] = "call"
    /\ \E self \in Results, msg \in Msgs :
         LET c == [op |-> "Result::expect_err_or_log", self |-> self,
                   msg |-> msg] IN
         IF self.tag = "Ok"
         THEN CallFailedWith(t, c, msg, self.val)
         ELSE Return(t, c, self.val)

lib_failed_with_crit(t) ==
    /\ revision = "lib.rs"
    /\ pc[t] = "failed_with:crit"
    /\ Crit(t, Format2(frame[t].msg, frame[t].value), "failed_with:panic")

\* Mutant of lib_failed_with_panic: the cfg is ignored, the message stays.
lib_failed_with_panic_NeverQuiet(t) ==
    /\ revision = "lib.rs"
    /\ pc[t] = "failed_with:panic"
    /\ Panic(t, Format2(frame[t].msg, frame[t].value))

lib_failed_with_panic(t) ==
    /\ revision = "lib.rs"
    /\ pc[t] = "failed_with:panic"
    /\ IF "panic-quiet" \in features
       THEN Panic(t, ExplicitPanic)
       ELSE Panic(t, Format2(frame[t].msg, frame[t].value))

(***************************************************************************)
(* The program: each thread makes one call, on a container of its own.     *)
(***************************************************************************)
Step(t) ==
    \/ Result_unwrap_or_log(t)
    \/ Result_expect_or_log(t)
    \/ Result_unwrap_err_or_log(t)
    \/ Result_expect_err_or_log(t)
    \/ Option_unwrap_or_log(t)
    \/ Option_expect_or_log(t)
    \/ Option_unwrap_none_or_log(t)
    \/ Option_expect_none_or_log(t)
    \/ failed_crit(t)
    \/ failed_panic(t)
    \/ failed_with_crit(t)
    \/ failed_with_panic(t)
    \/ lib_Result_unwrap_or_log(t)
    \/ lib_Result_expect_or_log(t)
    \/ lib_Result_unwrap_err_or_log(t)
    \/ lib_Result_expect_err_or_log(t)
    \/ lib_failed_with_crit(t)
    \/ lib_failed_with_panic(t)

Next == \E t \in Threads : Step(t)

\* every interleaving of the threads' calls
Spec == Init /\ [][Next]_vars

\* One thread running its call by itself.  A thread that is inside a call
\* executes its next statement, which is the weak fairness of its step.
NextAlone == Step(1)

AloneSpec == Init /\ [][NextAlone]_vars /\ WF_vars(NextAlone)


(***************************************************************************)
(* Vocabulary of the properties.                                           *)
(***************************************************************************)
Called(t) == pc[t] # "call"
Returned(t) == pc[t] = "returned"
Terminated(t) == pc[t] = "panicked"
Done(t) == Returned(t) \/ Terminated(t)
InHelper(t) ==
    pc[t] \in {"failed:crit", "failed:panic", "failed_with:crit",
               "failed_with:panic"}

CalledOp(t, ops) == Called(t) /\ call[t].op \in ops
CalledOn(t, ops, tag) == CalledOp(t, ops) /\ call[t].self.tag = tag

\* t returned v and nothing else happened: no record, no panic
ReturnedOnly(t, v) ==
    /\ Returned(t)
    /\ ret[t] = v
    /\ logger[t] = << >>
    /\ panicked[t] = NoValue

\* t is inside a helper or has panicked, and nothing was returned
NotReturning(t) ==
    /\ InHelper(t) \/ Terminated(t)
    /\ ret[t] = NoValue
    /\ Len(logger[t]) <= 1

OneCritical(t) ==
    /\ Len(logger[t]) = 1
    /\ logger[t][1].level = "Critical"

Text(t) == logger[t][1].text

Quiet == "panic-quiet" \in features

\* the variant on which the method returns normally
GoodTag(op) ==
    CASE op \in {"Result::unwrap_or_log", "Result::expect_or_log"} -> "Ok"
      [] op \in {"Result::unwrap_err_or_log", "Result::expect_err_or_log"}
            -> "Err"
      [] op \in {"Option::unwrap_or_log", "Option::expect_or_log"} -> "Some"
      [] OTHER -> "None"

Violates(c) == c.self.tag # GoodTag(c.op)

\* what the method hands back on its good variant
Payload(c) == IF c.self.tag = "None" THEN Unit ELSE c.self.val

\* the documented default message of each unwrap_* method
DefaultMessage(op) ==
    CASE op = "Result::unwrap_or_log" -> MsgResultUnwrap
      [] op = "Result::unwrap_err_or_log" -> MsgResultUnwrapErr
      [] op = "Option::unwrap_or_log" -> MsgOptionUnwrap
      [] OTHER -> MsgOptionUnwrapNone

MessageOf(c) == IF "msg" \in DOMAIN c THEN c.msg ELSE DefaultMessage(c.op)

\* the operations whose violation has no value to print
PlainOps == {"Option::unwrap_or_log", "Option::expect_or_log"}

\* the record a violating call is to leave in the logger
RecordText(c) ==
    IF c.op \in PlainOps
    THEN MessageOf(c)
    ELSE MessageOf(c) \o ": " \o Debug(c.self.val)

(***************************************************************************)
(* C1: on Ok(v), Result::unwrap_or_log and Result::expect_or_log (any msg) *)
(* return v, the logger receives no record and no panic is raised, in      *)
(* slog.rs and in lib.rs alike.                                            *)
(***************************************************************************)
C1_OkReturnsPayload ==
    \A t \in Threads :
        CalledOn(t, {"Result::unwrap_or_log", "Result::expect_or_log"}, "Ok")
            => ReturnedOnly(t, call[t].self.val)

C1_Witness ==
    /\ revision = "lib.rs"
    /\ \E t, u \in Threads :
        /\ CalledOn(t, {"Result::unwrap_or_log"}, "Ok")
        /\ CalledOn(u, {"Result::expect_or_log"}, "Ok")
        /\ Returned(t) /\ ret[t] = I32(42)
        /\ Returned(u) /\ ret[u] = I32(42)

\* C2, the parts of the statement
C2_State ==
    \A t \in Threads :
        CalledOn(t, {"Result::unwrap_or_log"}, "Err") =>
            /\ NotReturning(t)
            /\ Terminated(t) =>
                /\ OneCritical(t)
                /\ Contains(Text(t), MsgResultUnwrap)
                /\ Contains(Text(t), Debug(call[t].self.val))
                /\ call[t].self.val = Str("boom") =>
                       Text(t) = MsgResultUnwrap \o ": \"boom\""

(***************************************************************************)
(* C2: on Err(e), Result::unwrap_or_log never returns: the thread panics,  *)
(* and the logger has received exactly one record, at Critical level,      *)
(* whose text contains the default message of unwrap_or_log and the debug  *)
(* text of e.                                                              *)
(***************************************************************************)
C2_ErrLogsAndPanics ==
    /\ []C2_State
    /\ \A t \in Threads :
          CalledOn(t, {"Result::unwrap_or_log"}, "Err") ~> Terminated(t)

C2_Witness ==
    \E t \in Threads :
        /\ CalledOn(t, {"Result::unwrap_or_log"}, "Err")
        /\ call[t].self.val = Str("boom")
        /\ Terminated(t)
        /\ Len(logger[t]) = 1

(***************************************************************************)
(* C3: on Err(e), Result::expect_or_log(log, msg) panics and the logger    *)
(* has received exactly one Critical record whose text is msg, unmodified, *)
(* then ": ", then the debug text of e.                                    *)
(***************************************************************************)
C3_RecordIsMsgThenDebug(t) ==
    /\ NotReturning(t)
    /\ Terminated(t) =>
        /\ OneCritical(t)
        /\ Text(t) = call[t].msg \o ": " \o Debug(call[t].self.val)
        /\ (call[t].msg = "loading config"
              /\ call[t].self.val = Str("boom")) =>
               Text(t) = "loading config: \"boom\""

\* C3 as stated: the default message of unwrap_or_log does not appear in
\* the record unless msg itself contains it.
C3_Original ==
    \A t \in Threads :
        CalledOn(t, {"Result::expect_or_log"}, "Err") =>
            /\ C3_RecordIsMsgThenDebug(t)
            /\ (Terminated(t) /\ ~Contains(call[t].msg, MsgResultUnwrap))
                   => ~Contains(Text(t), MsgResultUnwrap)

C3_State ==
    \A t \in Threads :
        CalledOn(t, {"Result::expect_or_log"}, "Err") =>
            /\ C3_RecordIsMsgThenDebug(t)
            /\ (/\ Terminated(t)
                /\ ~Contains(call[t].msg, MsgResultUnwrap)
                /\ ~Contains(Debug(call[t].self.val), MsgResultUnwrap))
                   => ~Contains(Text(t), MsgResultUnwrap)

\* C3 as amended: as above, and the default message of unwrap_or_log does
\* not appear in the record unless msg or the debug text of e contains it.
C3_DefaultAbsentUnlessGiven ==
    /\ []C3_State
    /\ \A t \in Threads :
          CalledOn(t, {"Result::expect_or_log"}, "Err") ~> Terminated(t)

C3_Witness ==
    \E t \in Threads :
        /\ CalledOn(t, {"Result::expect_or_log"}, "Err")
        /\ call[t].msg = ""
        /\ call[t].self.val = Str("boom")
        /\ Terminated(t)
        /\ Text(t) = ": \"boom\""
        /\ ~Contains(Text(t), MsgResultUnwrap)

\* C4, the parts of the statement
C4_State ==
    \A t \in Threads :
        /\ CalledOn(t, {"Result::unwrap_err_or_log",
                        "Result::expect_err_or_log"}, "Err")
              => ReturnedOnly(t, call[t].self.val)
        /\ CalledOn(t, {"Result::unwrap_err_or_log",
                        "Result::expect_err_or_log"}, "Ok") =>
              /\ NotReturning(t)
              /\ Terminated(t) =>
                    /\ OneCritical(t)
                    /\ call[t].op = "Result::unwrap_err_or_log" =>
                          /\ Text(t) = MsgResultUnwrapErr \o ": "
                                          \o Debug(call[t].self.val)
                          /\ Contains(Text(t), "unwrap_err_or_log")
                    /\ call[t].op = "Result::expect_err_or_log" =>
                          Text(t) = call[t].msg \o ": "
                                       \o Debug(call[t].self.val)

(***************************************************************************)
(* C4: with Ok and Err swapped: on Err(e), Result::unwrap_err_or_log and   *)
(* Result::expect_err_or_log return e with no record; on Ok(v) each panics *)
(* with exactly one Critical record: the default message of                *)
(* unwrap_err_or_log, or the caller's msg, then ": " and the debug text    *)
(* of v.                                                                   *)
(***************************************************************************)
C4_SwappedRoles ==
    /\ []C4_State
    /\ \A t \in Threads :
          CalledOn(t, {"Result::unwrap_err_or_log",
                       "Result::expect_err_or_log"}, "Ok") ~> Terminated(t)

C4_Witness ==
    \E t \in Threads :
        /\ CalledOn(t, {"Result::unwrap_err_or_log"}, "Ok")
        /\ Terminated(t)
        /\ Text(t) = MsgResultUnwrapErr \o ": 42"

\* C5, the parts of the statement
C5_State ==
    \A t \in Threads :
        /\ CalledOn(t, PlainOps, "Some") => ReturnedOnly(t, call[t].self.val)
        /\ CalledOn(t, PlainOps, "None") =>
              /\ NotReturning(t)
              /\ Terminated(t) =>
                    /\ OneCritical(t)
                    /\ call[t].op = "Option::unwrap_or_log" =>
                          Text(t) = MsgOptionUnwrap
                    /\ call[t].op = "Option::expect_or_log" =>
                          Text(t) = call[t].msg

(***************************************************************************)
(* C5: Option::unwrap_or_log and Option::expect_or_log return v on Some(v) *)
(* with no record; on None each panics with exactly one Critical record    *)
(* whose text is the message alone (the default, or the caller's msg):     *)
(* no ": " and no value text is appended.                                  *)
(***************************************************************************)
C5_OptionUnwrap ==
    /\ []C5_State
    /\ \A t \in Threads : CalledOn(t, PlainOps, "None") ~> Terminated(t)

C5_Witness ==
    \E t \in Threads :
        /\ CalledOn(t, {"Option::expect_or_log"}, "None")
        /\ call[t].msg = "loading config"
        /\ Terminated(t)
        /\ Text(t) = "loading config"

\* C6, the parts of the statement
NoneOps == {"Option::unwrap_none_or_log", "Option::expect_none_or_log"}

C6_State ==
    \A t \in Threads :
        /\ CalledOn(t, NoneOps, "None") => ReturnedOnly(t, Unit)
        /\ CalledOn(t, NoneOps, "Some") =>
              /\ NotReturning(t)
              /\ Terminated(t) =>
                    /\ OneCritical(t)
                    /\ Contains(Text(t), MessageOf(call[t]))
                    /\ Contains(Text(t), Debug(call[t].self.val))
                    /\ call[t].op = "Option::unwrap_none_or_log" =>
                          Text(t) = MsgOptionUnwrapNone \o ": 42"

(***************************************************************************)
(* C6: Option::unwrap_none_or_log and Option::expect_none_or_log return    *)
(* unit on None, with no record and no panic; on Some(v) each panics with  *)
(* exactly one Critical record containing the message (the default, or the *)
(* caller's msg) and the debug text of v.                                  *)
(***************************************************************************)
C6_OptionUnwrapNone ==
    /\ []C6_State
    /\ \A t \in Threads : CalledOn(t, NoneOps, "Some") ~> Terminated(t)

C6_Witness ==
    \E t \in Threads :
        /\ CalledOn(t, {"Option::expect_none_or_log"}, "Some")
        /\ call[t].msg = "loading config"
        /\ Terminated(t)
        /\ Text(t) = "loading config: 42"

\* C7, the parts of the statement
AfterCrit(t) == pc[t] \in {"failed:panic", "failed_with:panic"}

C7_State ==
    \A t \in Threads :
        /\ Terminated(t) => OneCritical(t)
        /\ Returned(t) => logger[t] = << >>
        /\ Len(logger[t]) >= 1 => AfterCrit(t) \/ Terminated(t)
        /\ AfterCrit(t) => OneCritical(t)

C7_Step ==
    \A t \in Threads :
        \* the panic is the step after the emission, and emits nothing
        /\ (Terminated(t)' /\ ~Terminated(t)) =>
              /\ AfterCrit(t)
              /\ OneCritical(t)
              /\ logger'[t] = logger[t]
        \* the emission is the first statement of the helper
        /\ (logger'[t] # logger[t]) =>
              /\ pc[t] \in {"failed:crit", "failed_with:crit"}
              /\ logger[t] = << >>
              /\ AfterCrit(t)'
        \* the helpers never return
        /\ InHelper(t) => (InHelper(t)' \/ Terminated(t)')
        /\ Terminated(t) => Terminated(t)'

(***************************************************************************)
(* C7: on every violation path the record is emitted before the thread     *)
(* terminates, and termination always follows the emission: no thread      *)
(* terminates without its record, none returns after emitting one, and a   *)
(* thread inside failed or failed_with never returns.                      *)
(***************************************************************************)
C7_EmitThenTerminate ==
    /\ []C7_State
    /\ [][C7_Step]_vars
    /\ \A t \in Threads : InHelper(t) ~> Terminated(t)

C7_Witness ==
    \E t \in Threads :
        /\ revision = "lib.rs"
        /\ Terminated(t)
        /\ OneCritical(t)
        /\ ret[t] = NoValue

OutcomeAlone(t) ==
    IF Violates(call[t])
    THEN /\ Terminated(t)
         /\ ret[t] = NoValue
         /\ logger[t] = <<[level |-> "Critical",
                           text |-> RecordText(call[t])]>>
         /\ panicked[t] =
              [msg |-> IF Quiet THEN ExplicitPanic ELSE RecordText(call[t])]
    ELSE ReturnedOnly(t, Payload(call[t]))

OthersTerminated(t) == \A u \in Threads \ {t} : Terminated(u)

C9_State ==
    \A t \in Threads :
        /\ Done(t) => (call[t] # NoCall /\ OutcomeAlone(t))
        /\ (~Done(t) /\ OthersTerminated(t)) => ENABLED Step(t)

ThreadState(t) == <<pc[t], call[t], frame[t], ret[t], panicked[t], logger[t]>>

C9_Step ==
    \A t \in Threads :
        (ThreadState(t)' # ThreadState(t)) =>
            \A u \in Threads \ {t} : ThreadState(u)' = ThreadState(u)

(***************************************************************************)
(* C9: when several threads call concurrently, each on its own container,  *)
(* every interleaving gives each thread the outcome it would have alone    *)
(* (the payload and no record, or exactly one record and termination), and *)
(* a thread that terminates terminates only itself: no step of a thread    *)
(* changes another thread, and a thread still in its call can take its     *)
(* next step when every other thread has terminated.                       *)
(***************************************************************************)
C9_ThreadsDoNotInterfere ==
    /\ []C9_State
    /\ [][C9_Step]_vars

C9_Witness ==
    \E t, u \in Threads :
        /\ t # u
        /\ Terminated(t) /\ OneCritical(t)
        /\ Returned(u) /\ ret[u] = I32(42) /\ logger[u] = << >>

(***************************************************************************)
(* C10: in the default build the panic message is the text of the record:  *)
(* the message alone for failed (Option::unwrap_or_log and                 *)
(* Option::expect_or_log on None), and the message, ": " and the debug     *)
(* text of the value for failed_with (every other violation).              *)
(***************************************************************************)
C10_PanicMessageIsRecord ==
    \A t \in Threads :
        (~Quiet /\ Terminated(t)) =>
            /\ OneCritical(t)
            /\ panicked[t].msg = Text(t)
            /\ IF call[t].op \in PlainOps
               THEN panicked[t].msg = MessageOf(call[t])
               ELSE panicked[t].msg =
                      MessageOf(call[t]) \o ": " \o Debug(call[t].self.val)

C10_Witness ==
    \E t, u \in Threads :
        /\ ~Quiet
        /\ CalledOn(t, {"Option::unwrap_or_log"}, "None")
        /\ Terminated(t)
        /\ panicked[t].msg = MsgOptionUnwrap
        /\ CalledOn(u, {"Result::unwrap_or_log"}, "Err")
        /\ Terminated(u)
        /\ panicked[u].msg = MsgResultUnwrap \o ": \"boom\""

=============================================================================
